---- MODULE Spec2Model ----
(***************************************************************************)
(* A model of arxiv-slack's main.py: the announced-date and submission-    *)
(* window calculation, the formatting of one feed as a Slack post, and the *)
(* script body that fetches, filters, formats and notifies.                *)
(*                                                                         *)
(* A date is its proleptic Gregorian ordinal (Python's date.toordinal()).  *)
(* A datetime is a record [day, sec, off]: the local calendar day, the     *)
(* local second of that day and the UTC offset of its tzinfo in hours.     *)
(* A str is a sequence of one-character strings.                           *)
(***************************************************************************)
EXTENDS Integers, Sequences, FiniteSets

VARIABLES
    pc,             \* position in the script body / in the call under check
    err,            \* the exception that ended the run ("" when none)
    now,            \* posted_date: the reference instant of the run
    webhook,        \* args.webhook is not None
    category,       \* args.category
    announced_date, \* result of latest_announced_date / argument of the range call
    window,         \* (from_datetime, to_datetime)
    attempts,       \* attempts made by the retry wrapper of fetch_paper_feeds
    fetched,        \* what arxiv.query returned
    feeds,          \* the part of the filter iterator not yet consumed
    sent,           \* the notifications received by the webhook, in order
    submitted,      \* a submission instant followed across runs
    reported        \* announced days of the runs whose window held `submitted`

vars == <<pc, err, now, webhook, category, announced_date, window, attempts,
          fetched, feeds, sent, submitted, reported>>

----------------------------------------------------------------------------
(* Bounds of the model *)

\* ordinal of the first day of the sample year (2021-01-01, a Friday)
SampleYearStart == 737791
\* number of days of the sample year given to get_submitted_date_range
YearDays == 365
\* number of consecutive days from which a run's reference instant is drawn
NumDays == 10
\* number of consecutive days over which the script is run again and again
CoverDays == 21
\* largest number of results arxiv.query returns in the model
MaxFeeds == 3

----------------------------------------------------------------------------
(* Time zones and clock arithmetic *)

UTC == 0
JST == 9
EST == -5

HMS(h, m, s) == h * 3600 + m * 60 + s

SecondsPerDay == HMS(24, 0, 0)

\* date.isoweekday(): Monday is 1, Sunday is 7; ordinal 1 is a Monday
isoweekday(day) == ((day + 6) % 7) + 1

\* seconds of a datetime since 00:00 UTC of SampleYearStart (the absolute
\* instant that aware datetimes are compared by)
Timestamp(dt) ==
    (dt.day - SampleYearStart) * SecondsPerDay + dt.sec - dt.off * 3600

\* datetime.astimezone(tz): the same instant on tz's clock
astimezone(dt, tz) ==
    LET local == dt.sec - dt.off * 3600 + tz * 3600
    IN  [day |-> dt.day + (local \div SecondsPerDay),
         sec |-> local % SecondsPerDay,
         off |-> tz]

\* d - timedelta(days=n) on a datetime
MinusDays(dt, n) == [dt EXCEPT !.day = dt.day - n]

NoDatetime == [day |-> 0, sec |-> 0, off |-> 0]
NoWindow == <<NoDatetime, NoDatetime>>

----------------------------------------------------------------------------
(* latest_announced_date *)

\* the loop stepping back over Saturday and Sunday instead
SkipDaysWeekend == {6, 7}
\* the weekdays the while loop steps back over: Friday and Saturday
SkipDays == {5, 6}

RECURSIVE SkipBack(_)
SkipBack(day) ==
    IF isoweekday(day) \in SkipDays THEN SkipBack(day - 1) ELSE day

\* the 20:00 cutoff left out: the day of the instant is never stepped back
latest_announced_date_nocutoff(n) ==
    LET d0 == astimezone(n, EST)
    IN  [day |-> SkipBack(d0.day), sec |-> HMS(20, 0, 0), off |-> EST]

latest_announced_date(n) ==
    LET d0 == astimezone(n, EST)
        d1 == IF d0.sec < HMS(20, 0, 0) THEN MinusDays(d0, 1) ELSE d0
    IN  [day |-> SkipBack(d1.day), sec |-> HMS(20, 0, 0), off |-> EST]

----------------------------------------------------------------------------
(* get_submitted_date_range *)

\* the guard rejecting Saturday and Sunday instead
RejectDaysWeekend == {6, 7}
\* the weekdays for which ValueError is raised: Friday and Saturday
RejectDays == {5, 6}

Raises(a) == isoweekday(a.day) \in RejectDays

\* the window opening at the announcement hour instead
BeginClockLate == HMS(20, 0, 0)
\* the clock readings of the window's two ends
BeginClock == HMS(14, 0, 0)

EndClock == HMS(13, 59, 59)

\* the Monday branch left out: every day reaches back one day
get_submitted_date_range_oneday(a) ==
    LET b == a.day - 1
        e == a.day
    IN  << [day |-> b, sec |-> BeginClock, off |-> EST],
           [day |-> e, sec |-> EndClock, off |-> EST] >>

\* the value returned when no ValueError is raised
get_submitted_date_range(a) ==
    LET b == IF isoweekday(a.day) # 1 THEN a.day - 1 ELSE a.day - 3
        e == a.day
    IN  << [day |-> b, sec |-> BeginClock, off |-> EST],
           [day |-> e, sec |-> EndClock, off |-> EST] >>

----------------------------------------------------------------------------
(* feed_to_post and its helpers *)

AuthorLimit == 2

Ellipsis == <<".", ".", ".">>

\* _truncate_authors(authors, limit)
truncate_authors(authors, limit) ==
    IF Len(authors) <= limit
    THEN authors
    ELSE SubSeq(authors, 1, limit) \o <<Ellipsis>>

Digits == {"0", "1", "2", "3", "4", "5", "6", "7", "8", "9"}

UrlPrefix ==
    <<"h", "t", "t", "p", ":", "/", "/", "a", "r", "x", "i", "v", ".", "o",
      "r", "g", "/", "a", "b", "s", "/">>

\* whether re.match finds the pattern at the start of url: the prefix, four
\* digits, a dot, five digits (the trailing optional class never decides it)
UrlMatches(url) ==
    LET p == Len(UrlPrefix)
    IN  /\ Len(url) >= p + 10
        /\ SubSeq(url, 1, p) = UrlPrefix
        /\ \A i \in 1..4 : url[p + i] \in Digits
        /\ url[p + 5] = "."
        /\ \A i \in 6..10 : url[p + i] \in Digits

\* _arxiv_url_to_id(url): group(1) of the match
arxiv_url_to_id(url) == SubSeq(url, Len(UrlPrefix) + 1, Len(UrlPrefix) + 10)

\* str.replace("\n", "")
RECURSIVE RemoveNewlines(_)
RemoveNewlines(s) ==
    IF s = <<>> THEN <<>>
    ELSE IF Head(s) = "\n" THEN RemoveNewlines(Tail(s))
    ELSE <<Head(s)>> \o RemoveNewlines(Tail(s))

\* str.replace("  ", " "): one pass from the left over non-overlapping pairs
RECURSIVE ReplaceDoubleSpaces(_)
ReplaceDoubleSpaces(s) ==
    IF Len(s) < 2 THEN s
    ELSE IF s[1] = " " /\ s[2] = " "
         THEN <<" ">> \o ReplaceDoubleSpaces(SubSeq(s, 3, Len(s)))
         ELSE <<s[1]>> \o ReplaceDoubleSpaces(Tail(s))

\* ", ".join(names)
RECURSIVE Join(_)
Join(names) ==
    IF names = <<>> THEN <<>>
    ELSE IF Len(names) = 1 THEN names[1]
    ELSE names[1] \o <<",", " ">> \o Join(Tail(names))

\* the text returned by feed_to_post when the URL matches
feed_to_post(feed) ==
    LET url == feed.arxiv_url
        identifier == arxiv_url_to_id(url)
        title == ReplaceDoubleSpaces(RemoveNewlines(feed.title))
        authors == Join(truncate_authors(feed.authors, AuthorLimit))
    IN  <<"[", "<">> \o url \o <<"|">> \o identifier \o <<">", "]", " ">>
        \o title \o <<" ", "(">> \o authors \o <<")">>

----------------------------------------------------------------------------
(* The results the article index can return *)

ExampleFeed ==
    [arxiv_url |-> UrlPrefix \o <<"2", "1", "0", "1", ".", "0", "0", "0", "0", "1">>,
     title |-> <<"F", "o", "o", "\n", "\n", "B", "a", "r", " ", " ", "B", "a", "z">>,
     authors |-> << <<"A">>, <<"B">>, <<"C">> >>,
     term |-> <<"c", "s", ".", "A", "I">>]

WrappedFeed ==
    [arxiv_url |-> UrlPrefix \o <<"2", "1", "0", "1", ".", "0", "0", "0", "0", "2", "v", "1">>,
     title |-> <<"O", "n", "\n", " ", " ", "S", "e", "t", "s">>,
     authors |-> << <<"D">>, <<"E">> >>,
     term |-> <<"c", "s", ".", "L", "G">>]

CrossListedFeed ==
    [arxiv_url |-> UrlPrefix \o <<"2", "1", "0", "1", ".", "0", "0", "0", "0", "3", "v", "1", "2">>,
     title |-> <<"A", " ", " ", " ", " ", "B">>,
     authors |-> << <<"F">> >>,
     term |-> <<"m", "a", "t", "h">>]

OldStyleFeed ==
    [arxiv_url |-> UrlPrefix \o <<"c", "s", "/", "9", "9", "0", "1", "0", "0", "1">>,
     title |-> <<"X">>,
     authors |-> << <<"G">> >>,
     term |-> <<"c", "s", ".", "A", "I">>]

FeedPool == {ExampleFeed, WrappedFeed, CrossListedFeed, OldStyleFeed}

Categories == { <<"c", "s">>, <<"c", "s", ".", "A", "I">> }

RECURSIVE SeqsUpTo(_, _)
SeqsUpTo(S, n) ==
    IF n = 0 THEN {<<>>}
    ELSE LET shorter == SeqsUpTo(S, n - 1)
         IN  shorter \cup {Append(q, x) : q \in {r \in shorter : Len(r) = n - 1}, x \in S}

QueryResults == SeqsUpTo(FeedPool, MaxFeeds)

\* re.match(category, term) for a pattern of literal characters and dots
PrimaryMatches(cat, feed) ==
    /\ Len(cat) <= Len(feed.term)
    /\ \A i \in 1..Len(cat) : cat[i] = "." \/ cat[i] = feed.term[i]

\* the filter iterator advanced to its next item: the cross-lists before it
\* are dropped
RECURSIVE SkipCrossLists(_, _)
SkipCrossLists(fs, cat) ==
    IF fs = <<>> THEN <<>>
    ELSE IF PrimaryMatches(cat, Head(fs)) THEN fs
    ELSE SkipCrossLists(Tail(fs), cat)

----------------------------------------------------------------------------
(* Reference instants *)

RefDays == SampleYearStart .. (SampleYearStart + NumDays - 1)

\* UTC clock readings: around the 20:00 EST cutoff (01:00 UTC), midnight EST,
\* 08:00 EST, the 14:00 EST window edge and 08:00 JST
RefClocks ==
    {HMS(0, 0, 0), HMS(0, 59, 59), HMS(1, 0, 0), HMS(4, 59, 59), HMS(5, 0, 0),
     HMS(13, 0, 0), HMS(18, 59, 59), HMS(19, 0, 0), HMS(23, 0, 0)}

RefInstants == {[day |-> d, sec |-> s, off |-> UTC] : d \in RefDays, s \in RefClocks}

----------------------------------------------------------------------------
(* The script body *)

Init ==
    /\ pc = "latest"
    /\ err = ""
    /\ now \in RefInstants
    /\ webhook \in BOOLEAN
    /\ category \in Categories
    /\ announced_date = NoDatetime
    /\ window = NoWindow
    /\ attempts = 0
    /\ fetched = <<>>
    /\ feeds = <<>>
    /\ sent = <<>>
    /\ submitted = NoDatetime
    /\ reported = {}

\* announced_date = latest_announced_date(posted_date)
LatestAnnouncedDate ==
    /\ pc = "latest"
    /\ announced_date' = latest_announced_date(now)
    /\ pc' = "range"
    /\ UNCHANGED <<err, now, webhook, category, window, attempts, fetched,
                   feeds, sent, submitted, reported>>

\* from_datetime, to_datetime = get_submitted_date_range(announced_date)
GetSubmittedDateRange ==
    /\ pc = "range"
    /\ IF Raises(announced_date)
       THEN /\ pc' = "error"
            /\ err' = "ValueError"
            /\ UNCHANGED window
       ELSE /\ pc' = "lead"
            /\ window' = get_submitted_date_range(announced_date)
            /\ UNCHANGED err
    /\ UNCHANGED <<now, webhook, category, announced_date, attempts, fetched,
                   feeds, sent, submitted, reported>>

LeadPost(a) == [lead |-> TRUE, date |-> astimezone(a, JST).day, text |-> <<>>]

ItemPost(feed) == [lead |-> FALSE, date |-> 0, text |-> feed_to_post(feed)]

\* the "New submissions for ..." post
NotifyLead ==
    /\ pc = "lead"
    /\ sent' = IF webhook THEN Append(sent, LeadPost(announced_date)) ELSE sent
    /\ pc' = "fetch"
    /\ UNCHANGED <<err, now, webhook, category, announced_date, window,
                   attempts, fetched, feeds, submitted, reported>>

StopAfterAttempt == 10

\* an attempt of fetch_paper_feeds in which arxiv.query raises
FetchFails ==
    /\ pc = "fetch"
    /\ attempts < StopAfterAttempt
    /\ attempts' = attempts + 1
    /\ IF attempts' = StopAfterAttempt
       THEN pc' = "error" /\ err' = "RetryError"
       ELSE UNCHANGED <<pc, err>>
    /\ UNCHANGED <<now, webhook, category, announced_date, window, fetched,
                   feeds, sent, submitted, reported>>

\* an attempt of fetch_paper_feeds that returns; the retry wrapper's count
\* of attempts ends with the call
FetchPaperFeeds ==
    /\ pc = "fetch"
    /\ attempts < StopAfterAttempt
    /\ \E result \in QueryResults :
          /\ fetched' = result
          /\ feeds' = result
    /\ attempts' = 0
    /\ pc' = "loop"
    /\ UNCHANGED <<err, now, webhook, category, announced_date, window, sent,
                   submitted, reported>>

\* one pass of the for loop with the first item dropped unposted
PostFeedSkipping ==
    /\ pc = "loop"
    /\ SkipCrossLists(feeds, category) # <<>>
    /\ LET rest == SkipCrossLists(feeds, category)
           feed == Head(rest)
       IN  IF Len(fetched) = Len(rest)
           THEN /\ feeds' = Tail(rest)
                /\ UNCHANGED <<pc, err, sent>>
           ELSE IF UrlMatches(feed.arxiv_url)
           THEN /\ sent' = IF webhook THEN Append(sent, ItemPost(feed)) ELSE sent
                /\ feeds' = Tail(rest)
                /\ UNCHANGED <<pc, err>>
           ELSE /\ pc' = "error"
                /\ err' = "AttributeError"
                /\ UNCHANGED <<feeds, sent>>
    /\ UNCHANGED <<now, webhook, category, announced_date, window, attempts,
                   fetched, submitted, reported>>

\* one pass of the for loop: the next feed that is not a cross-list is
\* formatted and posted
PostFeed ==
    /\ pc = "loop"
    /\ SkipCrossLists(feeds, category) # <<>>
    /\ LET rest == SkipCrossLists(feeds, category)
           feed == Head(rest)
       IN  IF UrlMatches(feed.arxiv_url)
           THEN /\ sent' = IF webhook THEN Append(sent, ItemPost(feed)) ELSE sent
                /\ feeds' = Tail(rest)
                /\ UNCHANGED <<pc, err>>
           ELSE /\ pc' = "error"
                /\ err' = "AttributeError"
                /\ UNCHANGED <<feeds, sent>>
    /\ UNCHANGED <<now, webhook, category, announced_date, window, attempts,
                   fetched, submitted, reported>>

\* the filter iterator is exhausted: the script ends
LoopEnd ==
    /\ pc = "loop"
    /\ SkipCrossLists(feeds, category) = <<>>
    /\ feeds' = <<>>
    /\ pc' = "done"
    /\ UNCHANGED <<err, now, webhook, category, announced_date, window,
                   attempts, fetched, sent, submitted, reported>>

Next ==
    \/ LatestAnnouncedDate
    \/ GetSubmittedDateRange
    \/ NotifyLead
    \/ FetchFails
    \/ FetchPaperFeeds
    \/ PostFeed
    \/ LoopEnd

Spec == Init /\ [][Next]_vars

----------------------------------------------------------------------------
(* get_submitted_date_range called on each date of the sample year *)

SampleYear == SampleYearStart .. (SampleYearStart + YearDays - 1)

\* date(y, m, d) carries no clock; the function reads only its calendar day
InitRange ==
    /\ pc = "call"
    /\ err = ""
    /\ now = NoDatetime
    /\ webhook = FALSE
    /\ category = <<>>
    /\ announced_date \in {[day |-> d, sec |-> 0, off |-> 0] : d \in SampleYear}
    /\ window = NoWindow
    /\ attempts = 0
    /\ fetched = <<>>
    /\ feeds = <<>>
    /\ sent = <<>>
    /\ submitted = NoDatetime
    /\ reported = {}

CallRange ==
    /\ pc = "call"
    /\ IF Raises(announced_date)
       THEN /\ pc' = "raised"
            /\ err' = "ValueError"
            /\ UNCHANGED window
       ELSE /\ pc' = "returned"
            /\ window' = get_submitted_date_range(announced_date)
            /\ UNCHANGED err
    /\ UNCHANGED <<now, webhook, category, announced_date, attempts, fetched,
                   feeds, sent, submitted, reported>>

NextRange == CallRange

SpecRange == InitRange /\ [][NextRange]_vars

----------------------------------------------------------------------------
(* The script run at each reference instant in turn, with one submission   *)
(* followed across the runs                                                *)

\* clock readings (EST) of the submissions followed: midnight, the two sides
\* of the 14:00 window edge, the last second of the day
SubmittedClocks == {HMS(0, 0, 0), HMS(13, 59, 59), HMS(14, 0, 0), HMS(23, 59, 59)}

\* the reference instants of the repeated runs
CoverInstants ==
    {[day |-> d, sec |-> s, off |-> UTC] :
        d \in SampleYearStart .. (SampleYearStart + CoverDays - 1), s \in RefClocks}

\* days far enough inside the days of the runs that every window that could
\* hold them belongs to one of the runs
SubmittedDays == (SampleYearStart + 4) .. (SampleYearStart + CoverDays - 5)

Submissions ==
    {[day |-> d, sec |-> s, off |-> EST] : d \in SubmittedDays, s \in SubmittedClocks}

FirstInstant ==
    CHOOSE n \in CoverInstants : \A m \in CoverInstants : Timestamp(n) <= Timestamp(m)

Later(n) == {m \in CoverInstants : Timestamp(m) > Timestamp(n)}

NextInstant(n) ==
    CHOOSE m \in Later(n) : \A k \in Later(n) : Timestamp(m) <= Timestamp(k)

\* begin <= t <= end, as the query's inclusive range reads the window
InWindow(t, w) ==
    /\ Timestamp(w[1]) <= Timestamp(t)
    /\ Timestamp(t) <= Timestamp(w[2])

InitCover ==
    /\ pc = "run"
    /\ err = ""
    /\ now = FirstInstant
    /\ webhook = FALSE
    /\ category = <<>>
    /\ announced_date = NoDatetime
    /\ window = NoWindow
    /\ attempts = 0
    /\ fetched = <<>>
    /\ feeds = <<>>
    /\ sent = <<>>
    /\ submitted \in Submissions
    /\ reported = {}

\* one run: lines 189-190, then the query over the window
CoverRun ==
    /\ pc = "run"
    /\ LET a == latest_announced_date(now)
       IN  /\ announced_date' = a
           /\ IF Raises(a)
              THEN /\ pc' = "error"
                   /\ err' = "ValueError"
                   /\ UNCHANGED <<window, reported>>
              ELSE /\ pc' = "ran"
                   /\ window' = get_submitted_date_range(a)
                   /\ reported' = IF InWindow(submitted, window')
                                  THEN reported \cup {a.day}
                                  ELSE reported
                   /\ UNCHANGED err
    /\ UNCHANGED <<now, webhook, category, attempts, fetched, feeds, sent,
                   submitted>>

\* the next run's reference instant; after the last one the sweep is over
CoverTick ==
    /\ pc = "ran"
    /\ IF Later(now) = {}
       THEN pc' = "swept" /\ UNCHANGED now
       ELSE pc' = "run" /\ now' = NextInstant(now)
    /\ UNCHANGED <<err, webhook, category, announced_date, window, attempts,
                   fetched, feeds, sent, submitted, reported>>

NextCover ==
    \/ CoverRun
    \/ CoverTick

SpecCover == InitCover /\ [][NextCover]_vars

----------------------------------------------------------------------------
(* Properties *)

Weekday == isoweekday(announced_date.day)

DayBefore14 == [day |-> announced_date.day - 1, sec |-> HMS(14, 0, 0), off |-> EST]

FridayBefore14 == [day |-> announced_date.day - 3, sec |-> HMS(14, 0, 0), off |-> EST]

SameDay135959 == [day |-> announced_date.day, sec |-> HMS(13, 59, 59), off |-> EST]

\* C1 as stated: under SpecRange, every Saturday or Sunday of the sample year
\* is rejected (the call raises and returns no window).
C1_RejectsSatSun ==
    (pc # "call" /\ Weekday \in {6, 7}) => (pc = "raised" /\ window = NoWindow)

\* C1 amended: under SpecRange, every Friday or Saturday of the sample year is
\* rejected: the call raises ValueError and returns no window.
C1_RejectsFriSat ==
    (pc # "call" /\ Weekday \in {5, 6}) =>
        (pc = "raised" /\ err = "ValueError" /\ window = NoWindow)

C1_Witness == pc = "raised" /\ Weekday = 5

\* C2 as stated: the announced date returned by latest_announced_date, read
\* as a day of the reference timezone, is never a Saturday or a Sunday.
C2_NeverWeekend ==
    pc # "latest" => isoweekday(astimezone(announced_date, EST).day) \notin {6, 7}

\* C2 amended: the announced date returned by latest_announced_date, read as
\* a day of the reference timezone, is never a Friday or a Saturday.
C2_NeverFriSat ==
    pc # "latest" => isoweekday(astimezone(announced_date, EST).day) \notin {5, 6}

C2_Witness ==
    /\ pc = "range"
    /\ isoweekday(astimezone(now, EST).day) = 6
    /\ Weekday = 4

\* C3 as stated: under SpecRange, for every Tuesday, Wednesday, Thursday or
\* Friday the call returns begin = the day before at 14:00:00 and end = the
\* day itself at 13:59:59 (reference timezone), 24 hours less one second apart.
C3_TueToFri ==
    (pc # "call" /\ Weekday \in {2, 3, 4, 5}) =>
        /\ pc = "returned"
        /\ window = <<DayBefore14, SameDay135959>>
        /\ Timestamp(window[2]) - Timestamp(window[1]) = HMS(24, 0, 0) - 1

\* C3 amended: under SpecRange, for every Tuesday, Wednesday or Thursday the
\* call returns begin = the day before at 14:00:00 and end = the day itself
\* at 13:59:59 (reference timezone), 24 hours less one second apart.
C3_TueToThu ==
    (pc # "call" /\ Weekday \in {2, 3, 4}) =>
        /\ pc = "returned"
        /\ window = <<DayBefore14, SameDay135959>>
        /\ Timestamp(window[2]) - Timestamp(window[1]) = HMS(24, 0, 0) - 1

C3_Witness == pc = "returned" /\ Weekday = 3 /\ window[1].day = announced_date.day - 1

\* C4: under SpecRange, for every Monday the call returns begin = the Friday
\* three days earlier at 14:00:00 and end = that Monday at 13:59:59
\* (reference timezone), and begin is before end.
C4_MondayWindow ==
    (pc # "call" /\ Weekday = 1) =>
        /\ pc = "returned"
        /\ window = <<FridayBefore14, SameDay135959>>
        /\ isoweekday(window[1].day) = 5
        /\ Timestamp(window[1]) < Timestamp(window[2])

C4_Witness == pc = "returned" /\ Weekday = 1 /\ isoweekday(window[1].day) = 5

At20(day) == [day |-> day, sec |-> HMS(20, 0, 0), off |-> EST]

\* the days around the reference instant: a week back (two in seven days are
\* not skipped) up to the day after (whose 20:00 is after the instant in
\* every timezone)
CandidateDays(n) == (n.day - 7) .. (n.day + 1)

Eligible(day, n) ==
    /\ Timestamp(At20(day)) <= Timestamp(n)
    /\ isoweekday(day) \notin {5, 6}

MostRecentEligible(n) ==
    CHOOSE day \in CandidateDays(n) :
        /\ Eligible(day, n)
        /\ \A other \in CandidateDays(n) : Eligible(other, n) => other <= day

NowEST == astimezone(now, EST)

\* C5: latest_announced_date returns 20:00 (reference timezone) on the most
\* recent day D with D 20:00 not after the reference instant and D neither
\* Friday nor Saturday; at or after 20:00 on a Tuesday that is the Tuesday,
\* at 08:00 on a Friday it is the Thursday before.
C5_MostRecentAnnouncement ==
    pc # "latest" =>
        /\ announced_date = At20(MostRecentEligible(now))
        /\ (isoweekday(NowEST.day) = 2 /\ NowEST.sec >= HMS(20, 0, 0))
               => announced_date.day = NowEST.day
        /\ (isoweekday(NowEST.day) = 5 /\ NowEST.sec = HMS(8, 0, 0))
               => (announced_date.day = NowEST.day - 1 /\ Weekday = 4)

C5_Witness ==
    /\ pc = "range"
    /\ isoweekday(NowEST.day) = 5
    /\ NowEST.sec = HMS(8, 0, 0)
    /\ announced_date = At20(NowEST.day - 1)

ExamplePostAsSpecified ==
    <<"[", "<", "h", "t", "t", "p", ":", "/", "/", "a", "r", "x", "i", "v", ".",
      "o", "r", "g", "/", "a", "b", "s", "/", "2", "1", "0", "1", ".", "0", "0",
      "0", "0", "1", "|", "2", "1", "0", "1", ".", "0", "0", "0", "0", "1", ">",
      "]", " ", "F", "o", "o", " ", "B", "a", "r", " ", "B", "a", "z", " ", "(",
      "A", ",", " ", "B", ",", " ", ".", ".", ".", ")">>

\* C6: the post sent for the feed with URL http://arxiv.org/abs/2101.00001,
\* title "Foo\n\nBar  Baz" and authors [A, B, C] is exactly
\* "[<http://arxiv.org/abs/2101.00001|2101.00001>] Foo Bar Baz (A, B, ...)".
C6_ExamplePost ==
    (pc = "done" /\ webhook /\ fetched = <<ExampleFeed>>) =>
        (Len(sent) = 2 /\ sent[2].text = ExamplePostAsSpecified)

PassedFilter ==
    LET Primary(f) == PrimaryMatches(category, f)
    IN  SelectSeq(fetched, Primary)

ExpectedSent ==
    <<LeadPost(announced_date)>>
        \o [i \in 1..Len(PassedFilter) |-> ItemPost(PassedFilter[i])]

\* C7: in a run with a webhook and no error, the notifications sent are one
\* lead notification for the batch's date, first, then one notification per
\* result that passed the category filter, in fetch order: while the loop
\* runs they are a prefix of that sequence, and at the end all of it.
C7_NotificationSequence ==
    (webhook /\ pc \in {"fetch", "loop", "done"}) =>
        /\ Len(sent) >= 1
        /\ Len(sent) <= Len(ExpectedSent)
        /\ sent = SubSeq(ExpectedSent, 1, Len(sent))
        /\ pc = "done" => sent = ExpectedSent

C7_Witness ==
    /\ webhook
    /\ pc = "done"
    /\ fetched = <<WrappedFeed, CrossListedFeed, ExampleFeed>>
    /\ Len(sent) = 3
    /\ sent[1].lead
    /\ sent[2].text = feed_to_post(WrappedFeed)
    /\ sent[3].text = feed_to_post(ExampleFeed)

\* C8: get_submitted_date_range(latest_announced_date(now)) never raises in
\* the script: no run ends in ValueError.
C8_CompositionNeverRaises ==
    /\ err # "ValueError"
    /\ pc \in {"range", "lead"} => ~Raises(announced_date)

C8_Witness == pc = "lead" /\ Weekday = 7 /\ window[2].day = announced_date.day

\* C9: under SpecCover, once the script has run at every reference instant,
\* the submission followed lay in the window of at least one run.
C9_NoSubmissionMissed == pc = "swept" => reported # {}

\* C10: under SpecCover, the submission followed lies in the windows of at
\* most one announced date.
C10_NoSubmissionTwice == Cardinality(reported) <= 1

====
